---------------------------- MODULE Spec2Model ----------------------------
(***************************************************************************)
(* envconfig: binding of environment variables onto the fields of a       *)
(* struct.  Go strings are modelled as sequences of one-character strings, *)
(* so that upper-casing, trimming, splitting and prefix tests are computed *)
(* character by character as the library computes them.                   *)
(***************************************************************************)
EXTENDS Integers, Sequences, FiniteSets, TLC

VARIABLES
    pc,       \* position of the running call
    arg,      \* input of a call of a pure function (resolveKey, processField)
    out,      \* its result
    spec,     \* the caller's struct: its fields, in declaration order
    env,      \* the process environment: name -> value, for the names that are set
    opts,     \* *options of the running call
    vars,     \* []*variable returned by gatherInfo
    idx,      \* index into vars of the next variable Process handles
    store,    \* the caller's struct storage: path of a leaf field -> value written
    err,      \* the error the call returned
    lookups   \* history: the environment names looked up so far by the call

vars_all == <<pc, arg, out, spec, env, opts, vars, idx, store, err, lookups>>

(***************************************************************************)
(* Strings                                                                 *)
(***************************************************************************)
LowerChars == <<"a","b","c","d","e","f","g","h","i","j","k","l","m",
                "n","o","p","q","r","s","t","u","v","w","x","y","z">>
UpperChars == <<"A","B","C","D","E","F","G","H","I","J","K","L","M",
                "N","O","P","Q","R","S","T","U","V","W","X","Y","Z">>

Range(s) == {s[i] : i \in DOMAIN s}

\* [A-Z] of the two regular expressions
IsUpperAZ(c) == c \in Range(UpperChars)

\* unicode.ToUpper on one character
ToUpperCh(c) ==
    IF c \in Range(LowerChars)
    THEN UpperChars[CHOOSE i \in DOMAIN LowerChars : LowerChars[i] = c]
    ELSE c

\* strings.ToUpper
ToUpper(s) == [i \in DOMAIN s |-> ToUpperCh(s[i])]

\* unicode.IsSpace, on the characters the model uses
IsSpace(c) == c \in {" ", "\t", "\n"}

RECURSIVE TrimLeft(_)
TrimLeft(s) ==
    IF s # <<>> /\ IsSpace(Head(s)) THEN TrimLeft(Tail(s)) ELSE s

RECURSIVE TrimRight(_)
TrimRight(s) ==
    IF s # <<>> /\ IsSpace(s[Len(s)])
    THEN TrimRight(SubSeq(s, 1, Len(s) - 1))
    ELSE s

\* strings.TrimSpace
TrimSpace(s) == TrimRight(TrimLeft(s))

\* strings.HasPrefix
HasPrefix(s, p) == Len(s) >= Len(p) /\ SubSeq(s, 1, Len(p)) = p

\* index of the first sep in s at or after position i; 0 when there is none
RECURSIVE IndexFrom(_, _, _)
IndexFrom(s, sep, i) ==
    IF i > Len(s) THEN 0
    ELSE IF s[i] = sep THEN i
    ELSE IndexFrom(s, sep, i + 1)

\* strings.Split(s, sep) for a one-character sep
RECURSIVE Split(_, _)
Split(s, sep) ==
    LET i == IndexFrom(s, sep, 1)
    IN  IF i = 0 THEN <<s>>
        ELSE <<SubSeq(s, 1, i - 1)>> \o Split(SubSeq(s, i + 1, Len(s)), sep)

\* strings.SplitN(s, sep, 2) for a one-character sep
SplitN2(s, sep) ==
    LET i == IndexFrom(s, sep, 1)
    IN  IF i = 0 THEN <<s>>
        ELSE <<SubSeq(s, 1, i - 1), SubSeq(s, i + 1, Len(s))>>

\* strings.Join
RECURSIVE Join(_, _)
Join(ws, sep) ==
    IF ws = <<>> THEN <<>>
    ELSE IF Len(ws) = 1 THEN ws[1]
    ELSE ws[1] \o sep \o Join(Tail(ws), sep)

\* strconv.ParseBool: the values it accepts as true and as false
BoolTrue  == { <<"1">>, <<"t">>, <<"T">>, <<"T","R","U","E">>,
               <<"t","r","u","e">>, <<"T","r","u","e">> }
BoolFalse == { <<"0">>, <<"f">>, <<"F">>, <<"F","A","L","S","E">>,
               <<"f","a","l","s","e">>, <<"F","a","l","s","e">> }

\* isTrue: ParseBool with its error dropped
isTrue(s) == s \in BoolTrue

(***************************************************************************)
(* Struct tags.  A field's Tag is a record over the tag names the library  *)
(* reads.                                                                  *)
(***************************************************************************)
TagEnvconfig  == "envconfig"
TagIgnored    == "ignored"
TagDefault    == "default"
TagSplitWords == "split_words"
TagRequired   == "required"
TagFile       == "file"

\* A tag value is <<>> when the tag is absent and <<s>> when it is present
NoTags == [envconfig |-> <<>>, ignored |-> <<>>, default |-> <<>>,
           split_words |-> <<>>, required |-> <<>>, file |-> <<>>]

\* reflect.StructTag.Lookup: the "ok" result
TagHas(f, k) == f.Tag[k] # <<>>
\* reflect.StructTag.Get
TagGet(f, k) == IF f.Tag[k] # <<>> THEN f.Tag[k][1] ELSE <<>>

(***************************************************************************)
(* Key resolution                                                          *)
(***************************************************************************)
\* last index j >= i such that s[i..j] are all in [A-Z] (up = TRUE) or all
\* outside it (up = FALSE); s[i] is known to be of that class
RECURSIVE RunEnd(_, _, _)
RunEnd(s, i, up) ==
    IF i < Len(s) /\ IsUpperAZ(s[i + 1]) = up THEN RunEnd(s, i + 1, up) ELSE i

\* end of the leftmost-first match of ([^A-Z]+|[A-Z]+[^A-Z]+|[A-Z]+) at i
GatherEnd(s, i) ==
    IF ~IsUpperAZ(s[i]) THEN RunEnd(s, i, FALSE)
    ELSE LET u == RunEnd(s, i, TRUE)
         IN  IF u < Len(s) THEN RunEnd(s, u + 1, FALSE) ELSE u

\* gatherRegexp.FindAllStringSubmatch(in, -1): the matches, from position i
RECURSIVE GatherAll(_, _)
GatherAll(s, i) ==
    IF i > Len(s) THEN <<>>
    ELSE LET e == GatherEnd(s, i)
         IN  <<SubSeq(s, i, e)>> \o GatherAll(s, e + 1)

\* start positions at which ([A-Z]+)([A-Z][^A-Z]+) matches in w: a run of
\* capitals of length >= 2 that a non-capital follows
AcronymStarts(w) ==
    { p \in 1..Len(w) :
        /\ IsUpperAZ(w[p])
        /\ RunEnd(w, p, TRUE) > p
        /\ RunEnd(w, p, TRUE) < Len(w) }

\* acronymRegexp.FindStringSubmatch(w): <<m[1], m[2]>>, or <<>> for no match
AcronymSplitOff(w) == <<>>

AcronymSplit(w) ==
    IF AcronymStarts(w) = {} THEN <<>>
    ELSE LET p == CHOOSE q \in AcronymStarts(w) :
                     \A r \in AcronymStarts(w) : q <= r
             u == RunEnd(w, p, TRUE)
         IN  << SubSeq(w, p, u - 1), SubSeq(w, u, RunEnd(w, u + 1, FALSE)) >>

RECURSIVE SplitMatches(_)
SplitMatches(ms) ==
    IF ms = <<>> THEN <<>>
    ELSE LET m == AcronymSplit(Head(ms))
         IN  (IF Len(m) = 2 THEN m ELSE <<Head(ms)>>) \o SplitMatches(Tail(ms))

splitWords(in) == SplitMatches(GatherAll(in, 1))

\* resolveKey: <<key, altKey>>
resolveKey(prefix, fieldType) ==
    LET alt0 == TrimSpace(TagGet(fieldType, TagEnvconfig))
        altKey == IF alt0 # <<>> THEN ToUpper(alt0) ELSE alt0
        key0 == IF alt0 # <<>> THEN altKey
                ELSE IF isTrue(TagGet(fieldType, TagSplitWords))
                     THEN Join(splitWords(fieldType.Name), <<"_">>)
                     ELSE fieldType.Name
        key1 == IF prefix # <<>> THEN prefix \o <<"_">> \o key0 ELSE key0
    IN  <<ToUpper(key1), altKey>>

(***************************************************************************)
(* Options                                                                 *)
(***************************************************************************)
DefaultFileSuffix == <<"_","F","I","L","E">>

defaultOptions ==
    [prefix |-> <<>>, isLoadFromFile |-> TRUE,
     defaultFileSuffix |-> DefaultFileSuffix, trimSpaces |-> TRUE]

\* the Option constructors; each returns the update it applies
WithPrefix(prefix) == [op |-> "WithPrefix", a |-> ToUpper(prefix)]
WithoutDefaultLoadingFromFiles == [op |-> "WithoutDefaultLoadingFromFiles", a |-> <<>>]
WithDefaultFileSuffix(suffix) ==
    [op |-> "WithDefaultFileSuffix",
     a  |-> IF TrimSpace(suffix) = <<>> THEN DefaultFileSuffix ELSE TrimSpace(suffix)]
WithoutTrimSpaces == [op |-> "WithoutTrimSpaces", a |-> <<>>]

\* opt(o) for one Option
applyOne(o, opt) ==
    CASE opt.op = "WithPrefix" -> [o EXCEPT !.prefix = opt.a]
      [] opt.op = "WithoutDefaultLoadingFromFiles" -> [o EXCEPT !.isLoadFromFile = FALSE]
      [] opt.op = "WithDefaultFileSuffix" -> [o EXCEPT !.defaultFileSuffix = opt.a]
      [] opt.op = "WithoutTrimSpaces" -> [o EXCEPT !.trimSpaces = FALSE]

\* options.apply
RECURSIVE apply(_, _)
apply(o, optsValues) ==
    IF optsValues = <<>> THEN o
    ELSE apply(applyOne(o, Head(optsValues)), Tail(optsValues))

\* options.copy: trimSpaces is not among the fields it copies, so it is the
\* zero value in the copy
copy(o) ==
    [prefix |-> o.prefix, isLoadFromFile |-> o.isLoadFromFile,
     defaultFileSuffix |-> o.defaultFileSuffix, trimSpaces |-> FALSE]

(***************************************************************************)
(* Types and values.  A type is a record                                   *)
(*   kind   : "string", "int", "uint8", "bool", "slice", "map", "ptr",     *)
(*            "struct"                                                     *)
(*   bits   : the width of an integer kind                                 *)
(*   caps   : for each of Decoder, Setter, TextUnmarshaler and             *)
(*            BinaryUnmarshaler, whether the type declares the method with *)
(*            a value receiver ("value"), a pointer receiver ("ptr") or    *)
(*            not at all ("none")                                          *)
(*   elem   : <<t>> for the element type of a slice, map or pointer        *)
(*   key    : <<t>> for the key type of a map                              *)
(*   fields : the fields of a struct, in declaration order                 *)
(* A struct field is [Name, Tag, Exported, Anonymous, Nil, Type]; Nil says *)
(* that a field of pointer type holds nil in the caller's struct.          *)
(***************************************************************************)
NoCaps == [Decoder |-> "none", Setter |-> "none", Text |-> "none", Binary |-> "none"]

Ty(kind, bits, caps, elem, key, fields) ==
    [kind |-> kind, bits |-> bits, caps |-> caps, elem |-> elem, key |-> key,
     fields |-> fields]

PtrTo(t) == Ty("ptr", 0, NoCaps, <<t>>, <<>>, <<>>)

\* reflect.Type.Implements: the method set of a pointer type *T holds the
\* methods T declares with either receiver, that of T itself only those
\* with a value receiver
Implements(t, cap) ==
    IF t.kind = "ptr"
    THEN t.elem[1].kind # "ptr" /\ t.elem[1].caps[cap] # "none"
    ELSE t.caps[cap] = "value"

\* A reflect.Value the library holds: its type, where it is stored in the
\* caller's struct, and whether it is addressable, exported and nil
Value(t, path, nil) ==
    [type |-> t, path |-> path, canAddr |-> TRUE, canInterface |-> TRUE, nil |-> nil]

\* interfaceFrom: whether the type assertion succeeds, on the value or else on
\* its address
interfaceFromNoAddr(field, cap) ==
    field.canInterface /\ Implements(field.type, cap)

interfaceFrom(field, cap) ==
    /\ field.canInterface
    /\ \/ Implements(field.type, cap)
       \/ field.canAddr /\ Implements(PtrTo(field.type), cap)

decoderFrom(field)       == interfaceFrom(field, "Decoder")
setterFrom(field)        == interfaceFrom(field, "Setter")
textUnmarshaler(field)   == interfaceFrom(field, "Text")
binaryUnmarshaler(field) == interfaceFrom(field, "Binary")

(***************************************************************************)
(* The field walk                                                          *)
(***************************************************************************)
ErrInvalidSpecification == [kind |-> "invalid specification", name |-> <<>>]
NoErr == [kind |-> "nil", name |-> <<>>]

\* the pointer loop of gatherInfo on one field: the reflect.Value it ends
\* with; a nil pointer to a struct is allocated and followed, a nil pointer
\* to anything else is left alone
RECURSIVE derefField(_, _, _)
derefField(t, path, nil) ==
    IF t.kind # "ptr" THEN Value(t, path, FALSE)
    ELSE IF nil /\ t.elem[1].kind # "struct" THEN Value(t, path, TRUE)
    ELSE derefField(t.elem[1], path, FALSE)

\* whether that loop allocated (field.Set(reflect.New(...)))
allocates(t, nil) == t.kind = "ptr" /\ nil /\ t.elem[1].kind = "struct"

\* whether a field is skipped: it cannot be set or carries ignored:"true"
isSkipped(fieldType) == ~fieldType.Exported \/ isTrue(TagGet(fieldType, TagIgnored))

\* the reflect.Value the pointer loop leaves for a field of the struct at path
fieldOf(fieldType, path) ==
    derefField(fieldType.Type, path \o <<fieldType.Name>>, fieldType.Nil)

\* whether gatherInfo descends into the field: a struct that decodes itself
\* by none of the four interfaces
isNested(field) ==
    /\ field.type.kind = "struct"
    /\ ~decoderFrom(field) /\ ~setterFrom(field)
    /\ ~textUnmarshaler(field) /\ ~binaryUnmarshaler(field)

\* the variable recorded for a field
varItem(fieldType, field, o) ==
    [key |-> resolveKey(o.prefix, fieldType)[1],
     altKey |-> resolveKey(o.prefix, fieldType)[2],
     fieldType |-> fieldType, field |-> field, Opts |-> o]

\* the options of the recursive call on a nested struct
innerOptsSame(fieldType, o) == copy(o)

innerOpts(fieldType, o) ==
    IF fieldType.Anonymous THEN copy(o)
    ELSE [copy(o) EXCEPT !.prefix = resolveKey(o.prefix, fieldType)[1]]

\* the loop of gatherInfo on the fields i.. of the struct stored at path: the
\* variables, in order
RECURSIVE gatherFields(_, _, _, _)
gatherFields(fields, i, o, path) ==
    IF i > Len(fields) THEN <<>>
    ELSE (IF isSkipped(fields[i]) THEN <<>>
          ELSE IF isNested(fieldOf(fields[i], path))
          THEN gatherFields(fieldOf(fields[i], path).type.fields, 1,
                            innerOpts(fields[i], o), fieldOf(fields[i], path).path)
          ELSE <<varItem(fields[i], fieldOf(fields[i], path), o)>>)
         \o gatherFields(fields, i + 1, o, path)

\* the same loop: the paths of the nil pointers it allocated; the fields of
\* a freshly allocated struct are zero, so its pointers are nil
RECURSIVE gatherAllocs(_, _, _)
gatherAllocs(fields, i, path) ==
    IF i > Len(fields) THEN {}
    ELSE (IF isSkipped(fields[i]) THEN {}
          ELSE (IF allocates(fields[i].Type, fields[i].Nil)
                THEN {path \o <<fields[i].Name>>} ELSE {})
               \cup (IF isNested(fieldOf(fields[i], path))
                     THEN gatherAllocs(fieldOf(fields[i], path).type.fields, 1,
                                       fieldOf(fields[i], path).path)
                     ELSE {}))
         \cup gatherAllocs(fields, i + 1, path)

\* gatherInfo(spec, opts); spec is [ptr, type]: what the caller passed
gatherInfo(s, o) ==
    IF ~s.ptr \/ s.type.kind # "struct"
    THEN [vars |-> <<>>, allocs |-> {}, err |-> ErrInvalidSpecification]
    ELSE [vars |-> gatherFields(s.type.fields, 1, o, <<>>),
          allocs |-> gatherAllocs(s.type.fields, 1, <<>>), err |-> NoErr]

(***************************************************************************)
(* Value resolution                                                        *)
(***************************************************************************)
\* the one readable file of the model's file system and its contents; any
\* other path is unreadable
SecretPath == <<"/","s">>
SecretData == <<" ","s","3","\n">>

\* os.ReadFile
ReadFileAny(path) == [data |-> SecretData, err |-> NoErr]

ReadFile(path) ==
    IF path = SecretPath THEN [data |-> SecretData, err |-> NoErr]
    ELSE [data |-> <<>>, err |-> [kind |-> "read file", name |-> path]]

\* os.LookupEnv
IsSet(e, name) == name \in DOMAIN e

\* variable.resolveFileLoading: [tagValue, needLoad]
resolveFileLoadingNoTag(v) ==
    IF v.Opts.isLoadFromFile
    THEN [tagValue |-> <<>>, needLoad |-> TRUE]
    ELSE [tagValue |-> <<>>, needLoad |-> FALSE]

resolveFileLoading(v) ==
    IF TagHas(v.fieldType, TagFile)
    THEN LET tagFileValue == TagGet(v.fieldType, TagFile)
         IN  IF tagFileValue \in BoolTrue \cup BoolFalse
             THEN IF tagFileValue \in BoolTrue
                  THEN [tagValue |-> <<>>, needLoad |-> TRUE]
                  ELSE [tagValue |-> <<>>, needLoad |-> FALSE]
             ELSE [tagValue |-> tagFileValue, needLoad |-> TRUE]
    ELSE IF v.Opts.isLoadFromFile
         THEN [tagValue |-> <<>>, needLoad |-> TRUE]
         ELSE [tagValue |-> <<>>, needLoad |-> FALSE]

NotLoaded == [value |-> <<>>, isLoaded |-> FALSE, err |-> NoErr, lookups |-> <<>>]

\* variable.loadFromFile
loadFromFile(v, e, envName) ==
    LET r == resolveFileLoading(v)
        tagValue == IF TrimSpace(r.tagValue) = <<>>
                    THEN v.Opts.defaultFileSuffix ELSE TrimSpace(r.tagValue)
        fileEnvName == ToUpper(envName \o tagValue)
    IN  IF ~r.needLoad THEN NotLoaded
        ELSE IF ~IsSet(e, fileEnvName)
             THEN [NotLoaded EXCEPT !.lookups = <<fileEnvName>>]
        ELSE LET filePath == TrimSpace(e[fileEnvName])
                 f == ReadFile(filePath)
             IN  IF filePath = <<>>
                 THEN [NotLoaded EXCEPT
                         !.err = [kind |-> "empty file variable", name |-> tagValue],
                         !.lookups = <<fileEnvName>>]
                 ELSE [value |-> f.data, isLoaded |-> f.err = NoErr, err |-> f.err,
                       lookups |-> <<fileEnvName>>]

\* variable.tryEnv
tryEnvNoFile(v, e, envName) ==
    IF IsSet(e, envName)
    THEN [value |-> e[envName], isLoaded |-> TRUE, err |-> NoErr, lookups |-> <<envName>>]
    ELSE [NotLoaded EXCEPT !.lookups = <<envName>>]

tryEnv(v, e, envName) ==
    IF IsSet(e, envName)
    THEN [value |-> e[envName], isLoaded |-> TRUE, err |-> NoErr, lookups |-> <<envName>>]
    ELSE LET f == loadFromFile(v, e, envName)
         IN  [f EXCEPT !.lookups = <<envName>> \o f.lookups]

\* the loop of variable.value over envNames
RECURSIVE tryNames(_, _, _)
tryNames(v, e, envNames) ==
    IF envNames = <<>> THEN NotLoaded
    ELSE LET r == tryEnv(v, e, Head(envNames))
         IN  IF r.err # NoErr \/ r.isLoaded THEN r
             ELSE LET n == tryNames(v, e, Tail(envNames))
                  IN  [n EXCEPT !.lookups = r.lookups \o n.lookups]

\* the names variable.value tries, in order
envNamesKeyOnly(v) == <<v.key>>

envNamesOf(v) == IF v.altKey # <<>> THEN <<v.key, v.altKey>> ELSE <<v.key>>

\* variable.value: [value, isLoaded, err, lookups]
value(v, e) ==
    LET r == tryNames(v, e, envNamesOf(v))
    IN  IF r.err # NoErr THEN r
        ELSE IF r.isLoaded
             THEN IF v.Opts.trimSpaces THEN [r EXCEPT !.value = TrimSpace(r.value)] ELSE r
        ELSE [r EXCEPT !.value = TagGet(v.fieldType, TagDefault),
                       !.isLoaded = TagHas(v.fieldType, TagDefault)]

\* variable.isRequired
isRequiredNever(v) == FALSE

isRequired(v) == isTrue(TagGet(v.fieldType, TagRequired))

(***************************************************************************)
(* strconv                                                                 *)
(***************************************************************************)
Digits == <<"0","1","2","3","4","5","6","7","8","9">>

\* the value of one digit of ParseUint: 0-9, then a-z and A-Z as 10..35; 99
\* stands for a character that is no digit of any base
DigitVal(c) ==
    IF c \in Range(Digits)
    THEN (CHOOSE i \in DOMAIN Digits : Digits[i] = c) - 1
    ELSE IF c \in Range(LowerChars)
    THEN (CHOOSE i \in DOMAIN LowerChars : LowerChars[i] = c) + 9
    ELSE IF c \in Range(UpperChars)
    THEN (CHOOSE i \in DOMAIN UpperChars : UpperChars[i] = c) + 9
    ELSE 99

RECURSIVE Pow2(_)
Pow2(n) == IF n = 0 THEN 1 ELSE 2 * Pow2(n - 1)

\* The strings of the model are too short to exceed 32 bits, so a width of 32
\* or 64 bits never overflows; narrower widths are checked digit by digit
Overflows(n, bits) == bits <= 16 /\ n > Pow2(bits) - 1

\* the digit loop of strconv.ParseUint(s, 0, bits)
RECURSIVE parseDigits(_, _, _, _, _)
parseDigits(s, i, base, n, bits) ==
    IF i > Len(s) THEN [n |-> n, err |-> "nil"]
    ELSE IF s[i] = "_" THEN parseDigits(s, i + 1, base, n, bits)
    ELSE IF DigitVal(s[i]) >= base THEN [n |-> 0, err |-> "syntax"]
    ELSE IF Overflows(n * base + DigitVal(s[i]), bits) THEN [n |-> 0, err |-> "range"]
    ELSE parseDigits(s, i + 1, base, n * base + DigitVal(s[i]), bits)

\* strconv.underscoreOK, after the sign: saw is "^", "0", "_" or "!"
RECURSIVE underscoreScan(_, _, _, _)
underscoreScan(s, i, saw, hex) ==
    IF i > Len(s) THEN saw # "_"
    ELSE IF \/ s[i] \in Range(Digits)
            \/ hex /\ DigitVal(s[i]) \in 10..15
         THEN underscoreScan(s, i + 1, "0", hex)
    ELSE IF s[i] = "_" THEN saw = "0" /\ underscoreScan(s, i + 1, "_", hex)
    ELSE IF saw = "_" THEN FALSE
    ELSE underscoreScan(s, i + 1, "!", hex)

HasBasePrefix(s) ==
    Len(s) >= 2 /\ s[1] = "0" /\ s[2] \in {"b","B","o","O","x","X"}

underscoreOK(s) ==
    IF HasBasePrefix(s) THEN underscoreScan(s, 3, "0", s[2] \in {"x","X"})
    ELSE underscoreScan(s, 1, "^", FALSE)

\* strconv.ParseUint(s, 0, bits): [n, err]
ParseUint(s, bits) ==
    IF s = <<>> THEN [n |-> 0, err |-> "syntax"]
    ELSE
    LET prefixed == Len(s) >= 3 /\ HasBasePrefix(s)
        base == IF s[1] # "0" THEN 10
                ELSE IF ~prefixed THEN 8
                ELSE IF s[2] \in {"b","B"} THEN 2
                ELSE IF s[2] \in {"o","O"} THEN 8 ELSE 16
        body == IF s[1] # "0" THEN s
                ELSE IF prefixed THEN SubSeq(s, 3, Len(s)) ELSE Tail(s)
        r == parseDigits(body, 1, base, 0, bits)
    IN  IF r.err # "nil" THEN r
        ELSE IF "_" \in Range(s) /\ ~underscoreOK(s) THEN [n |-> 0, err |-> "syntax"]
        ELSE r

\* strconv.ParseInt(s, 0, bits): [n, err]
ParseInt(s, bits) ==
    IF s = <<>> THEN [n |-> 0, err |-> "syntax"]
    ELSE
    LET neg == s[1] = "-"
        body == IF s[1] \in {"+","-"} THEN Tail(s) ELSE s
        un == ParseUint(body, bits)
    IN  IF un.err = "syntax" THEN un
        ELSE IF un.err = "range" THEN un
        ELSE IF bits <= 16 /\ ~neg /\ un.n >= Pow2(bits - 1) THEN [n |-> 0, err |-> "range"]
        ELSE IF bits <= 16 /\ neg /\ un.n > Pow2(bits - 1) THEN [n |-> 0, err |-> "range"]
        ELSE [n |-> IF neg THEN 0 - un.n ELSE un.n, err |-> "nil"]

\* strconv.ParseBool: [b, err]
ParseBool(s) ==
    IF s \in BoolTrue THEN [b |-> TRUE, err |-> "nil"]
    ELSE IF s \in BoolFalse THEN [b |-> FALSE, err |-> "nil"]
    ELSE [b |-> FALSE, err |-> "syntax"]

(***************************************************************************)
(* Type coercion.  A Go value is [k, s, n, items]: k names how it was      *)
(* produced ("Decode", "Set", "UnmarshalText", "UnmarshalBinary" for a     *)
(* value handed to the type's own method with the string s; "string",      *)
(* "int", "uint", "bool", "bytes", "slice", "map", "ptr" for the built-in  *)
(* conversions; "zero" for a value no conversion touched).  A slice holds  *)
(* its elements in items, a map its entries <<key, value>> in insertion    *)
(* order, a pointer its pointee.                                           *)
(***************************************************************************)
V(k, s, n, items) == [k |-> k, s |-> s, n |-> n, items |-> items]
Zero == V("zero", <<>>, 0, <<>>)

Ok(v) == [err |-> NoErr, val |-> v]
Fail(kind, name) == [err |-> [kind |-> kind, name |-> name], val |-> Zero]

\* reflect.Value.SetMapIndex on the entries of a map
RECURSIVE SetMapIndex(_, _, _)
SetMapIndex(entries, k, v) ==
    IF entries = <<>> THEN << <<k, v>> >>
    ELSE IF Head(entries)[1] = k THEN << <<k, v>> >> \o Tail(entries)
    ELSE <<Head(entries)>> \o SetMapIndex(Tail(entries), k, v)

\* the self-decoding method processField calls, if any: the first of
\* Decoder, Setter, TextUnmarshaler, BinaryUnmarshaler that the field has
selfDecoderBuiltinFirst(field) == "none"

selfDecoderSetterFirst(field) ==
    IF setterFrom(field) THEN "Set"
    ELSE IF decoderFrom(field) THEN "Decode"
    ELSE IF textUnmarshaler(field) THEN "UnmarshalText"
    ELSE IF binaryUnmarshaler(field) THEN "UnmarshalBinary"
    ELSE "none"

selfDecoder(field) ==
    IF decoderFrom(field) THEN "Decode"
    ELSE IF setterFrom(field) THEN "Set"
    ELSE IF textUnmarshaler(field) THEN "UnmarshalText"
    ELSE IF binaryUnmarshaler(field) THEN "UnmarshalBinary"
    ELSE "none"

\* strings.Split(value, ",") and strings.Split(pair, ":") of processField
splitList(str) == Split(str, ",")
splitPairN2(pair) == SplitN2(pair, ":")
splitPair(pair) == Split(pair, ":")

\* whether processField takes the string as a list at all
isBlankNever(str) == FALSE
isBlank(str) == TrimSpace(str) = <<>>

RECURSIVE processField(_, _)
RECURSIVE processElems(_, _, _)
RECURSIVE processPairs(_, _, _)

\* the loop over the elements of a slice: [err, val] with val the elements
processElems(vals, i, elemType) ==
    IF i > Len(vals) THEN Ok(<<>>)
    ELSE LET r == processField(vals[i], Value(elemType, <<>>, elemType.kind = "ptr"))
             rest == processElems(vals, i + 1, elemType)
         IN  IF r.err # NoErr THEN r
             ELSE IF rest.err # NoErr THEN rest
             ELSE Ok(<<r.val>> \o rest.val)

\* the loop over the pairs of a map: [err, val] with val the entries
processPairs(pairs, typ, entries) ==
    IF pairs = <<>> THEN Ok(entries)
    ELSE LET pair == Head(pairs)
             kvpair == splitPair(pair)
             k == processField(kvpair[1], Value(typ.key[1], <<>>, typ.key[1].kind = "ptr"))
             v == processField(kvpair[2], Value(typ.elem[1], <<>>, typ.elem[1].kind = "ptr"))
         IN  IF Len(kvpair) # 2 THEN Fail("invalid map item", pair)
             ELSE IF k.err # NoErr THEN k
             ELSE IF v.err # NoErr THEN v
             ELSE processPairs(Tail(pairs), typ, SetMapIndex(entries, k.val, v.val))

\* processField(value, field): [err, val]; val is what the field holds after
\* the call (Zero: the call did not touch it)
processField(str, field) ==
    IF selfDecoder(field) # "none" THEN Ok(V(selfDecoder(field), str, 0, <<>>))
    ELSE
    LET isPtr == field.type.kind = "ptr"
        typ == IF isPtr THEN field.type.elem[1] ELSE field.type
        Set(v) == Ok(IF isPtr THEN V("ptr", <<>>, 0, <<v>>) ELSE v)
    IN  CASE typ.kind = "string" -> Set(V("string", str, 0, <<>>))
          [] typ.kind = "int" ->
                LET r == ParseInt(str, typ.bits)
                IN  IF r.err # "nil" THEN Fail(r.err, str)
                    ELSE Set(V("int", <<>>, r.n, <<>>))
          [] typ.kind = "uint" ->
                LET r == ParseUint(str, typ.bits)
                IN  IF r.err # "nil" THEN Fail(r.err, str)
                    ELSE Set(V("uint", <<>>, r.n, <<>>))
          [] typ.kind = "bool" ->
                LET r == ParseBool(str)
                IN  IF r.err # "nil" THEN Fail(r.err, str)
                    ELSE Set(V("bool", <<>>, IF r.b THEN 1 ELSE 0, <<>>))
          [] typ.kind = "slice" ->
                IF typ.elem[1].kind = "uint" /\ typ.elem[1].bits = 8
                THEN \* reflect.Value.Set panics unless []byte is assignable
                     \* to the slice type, i.e. unless the element type is
                     \* uint8 itself; a type with methods is a defined type
                     IF typ.elem[1].caps # NoCaps THEN Fail("panic", str)
                     ELSE Set(V("bytes", str, 0, <<>>))
                ELSE IF isBlank(str) THEN Set(V("slice", <<>>, 0, <<>>))
                ELSE LET r == processElems(splitList(str), 1, typ.elem[1])
                     IN  IF r.err # NoErr THEN r
                         ELSE Set(V("slice", <<>>, 0, r.val))
          [] typ.kind = "map" ->
                IF isBlank(str) THEN Set(V("map", <<>>, 0, <<>>))
                ELSE LET r == processPairs(splitList(str), typ, <<>>)
                     IN  IF r.err # NoErr THEN r
                         ELSE Set(V("map", <<>>, 0, r.val))
          [] OTHER -> IF isPtr THEN Set(Zero) ELSE Ok(Zero)

(***************************************************************************)
(* Common parts of the specifications                                      *)
(***************************************************************************)
\* all sequences over S of length 1..n
Seqs(S, n) == UNION { [1..k -> S] : k \in 1..n }

StringT == Ty("string", 0, NoCaps, <<>>, <<>>, <<>>)
IntT    == Ty("int", 64, NoCaps, <<>>, <<>>, <<>>)
Int8T   == Ty("int", 8, NoCaps, <<>>, <<>>, <<>>)
ByteT   == Ty("uint", 8, NoCaps, <<>>, <<>>, <<>>)
BoolT   == Ty("bool", 0, NoCaps, <<>>, <<>>, <<>>)
SliceOf(t)  == Ty("slice", 0, NoCaps, <<t>>, <<>>, <<>>)
MapOf(k, t) == Ty("map", 0, NoCaps, <<t>>, <<k>>, <<>>)
StructOf(fields) == Ty("struct", 0, NoCaps, <<>>, <<>>, fields)

\* a struct field of the caller's struct
Field(name, tag, type) ==
    [Name |-> name, Tag |-> tag, Exported |-> TRUE, Anonymous |-> FALSE,
     Nil |-> type.kind = "ptr", Type |-> type]

\* no call of the API is running, and none has run
NoCall ==
    /\ spec = [ptr |-> FALSE, type |-> StringT]
    /\ env = <<>>
    /\ opts = defaultOptions
    /\ vars = <<>>
    /\ idx = 0
    /\ store = <<>>
    /\ err = NoErr
    /\ lookups = <<>>

(***************************************************************************)
(* SpecKey: resolveKey on every field name up to MaxNameLen characters     *)
(***************************************************************************)
MaxNameLen == 4

KeyChars == {"A", "K", "e", "2"}

APIKey == <<"A","P","I","K","e","y">>
DBHost == <<"D","B","H","o","s","t">>
Port   == <<"P","o","r","t">>

\* identifiers of exported fields: they start with a capital
KeyNames ==
    { n \in Seqs(KeyChars, MaxNameLen) : IsUpperAZ(n[1]) } \cup {APIKey, DBHost, Port}

KeyTags ==
    { [NoTags EXCEPT !.split_words = sw, !.envconfig = et] :
        sw \in { <<>>, << <<"t","r","u","e">> >>, << <<"f","a","l","s","e">> >> },
        et \in { <<>>, << <<"s","e","c">> >> } }

KeyPrefixes == { <<>>, <<"A","P","P">> }

InitKey ==
    /\ pc = "resolveKey"
    /\ arg \in { [prefix |-> p, field |-> Field(n, t, StringT)] :
                   p \in KeyPrefixes, n \in KeyNames, t \in KeyTags }
    /\ out = <<>>
    /\ NoCall

resolveKeyCall ==
    /\ pc = "resolveKey"
    /\ out' = resolveKey(arg.prefix, arg.field)
    /\ pc' = "returned"
    /\ UNCHANGED <<arg, spec, env, opts, vars, idx, store, err, lookups>>

NextKey == resolveKeyCall

SpecKey == InitKey /\ [][NextKey]_vars_all

\* the identifier s from position i on, with "_" put before every word
\* boundary: before a capital that follows a non-capital, and before the
\* last capital of a run of capitals that a non-capital follows
IsBoundary(s, i) ==
    /\ i > 1
    /\ IsUpperAZ(s[i])
    /\ \/ ~IsUpperAZ(s[i - 1])
       \/ i < Len(s) /\ ~IsUpperAZ(s[i + 1])

RECURSIVE WordsJoined(_, _)
WordsJoined(s, i) ==
    IF i > Len(s) THEN <<>>
    ELSE (IF IsBoundary(s, i) THEN <<"_", s[i]>> ELSE <<s[i]>>) \o WordsJoined(s, i + 1)

PrefixedUpper(prefix, body) ==
    ToUpper((IF prefix # <<>> THEN prefix \o <<"_">> ELSE <<>>) \o body)

\* C10: with split_words and no explicit name the key is the identifier's
\* words joined with "_" and upper-cased, after the optional "<prefix>_";
\* without split_words it is the raw identifier upper-cased.  APIKey gives
\* API_KEY, DBHost gives DB_HOST and Port gives PORT.
C10_SplitWordsKey ==
    (pc = "returned" /\ arg.field.Tag.envconfig = <<>>) =>
        LET name == arg.field.Name
            split == isTrue(TagGet(arg.field, TagSplitWords))
        IN  /\ split => out[1] = PrefixedUpper(arg.prefix, WordsJoined(name, 1))
            /\ ~split => out[1] = PrefixedUpper(arg.prefix, name)
            /\ (split /\ arg.prefix = <<>> /\ name = APIKey)
                   => out[1] = <<"A","P","I","_","K","E","Y">>
            /\ (split /\ arg.prefix = <<>> /\ name = DBHost)
                   => out[1] = <<"D","B","_","H","O","S","T">>
            /\ (~split /\ arg.prefix = <<>> /\ name = Port)
                   => out[1] = <<"P","O","R","T">>

\* resolveKey has returned the key APP_API_KEY for the field APIKey
C10_Witness ==
    /\ pc = "returned"
    /\ arg.field.Name = APIKey
    /\ arg.field.Tag.envconfig = <<>>
    /\ isTrue(TagGet(arg.field, TagSplitWords))
    /\ out[1] = <<"A","P","P","_","A","P","I","_","K","E","Y">>

(***************************************************************************)
(* SpecCoerce: processField on every string up to MaxValueLen characters   *)
(* and a range of field types                                              *)
(***************************************************************************)
MaxValueLen == 4

CoerceChars == {"a", "9", ",", ":", " "}

CoerceValues == {<<>>} \cup Seqs(CoerceChars, MaxValueLen)

CapKinds == {"none", "value", "ptr"}

\* defined types with underlying type int8 and every combination of the
\* four self-decoding methods, each with a value or a pointer receiver
CapScalars ==
    { Ty("int", 8, c, <<>>, <<>>, <<>>) :
        c \in [Decoder : CapKinds, Setter : CapKinds, Text : CapKinds, Binary : CapKinds] }

DecInt  == Ty("int", 8, [NoCaps EXCEPT !.Decoder = "ptr"], <<>>, <<>>, <<>>)
SetStr  == Ty("string", 0, [NoCaps EXCEPT !.Setter = "value"], <<>>, <<>>, <<>>)
TextBin == Ty("int", 8, [NoCaps EXCEPT !.Text = "ptr", !.Binary = "value"], <<>>, <<>>, <<>>)
DecByte == Ty("uint", 8, [NoCaps EXCEPT !.Decoder = "ptr"], <<>>, <<>>, <<>>)

ElemTypes == {StringT, Int8T, DecInt, SetStr, TextBin, PtrTo(Int8T), PtrTo(DecInt)}
MapKeyTypes == {StringT, Int8T, DecInt}
MapElemTypes == {StringT, Int8T, SetStr}

CompositeTypes ==
    { SliceOf(e) : e \in ElemTypes }
      \cup { SliceOf(ByteT), SliceOf(DecByte), SliceOf(SliceOf(Int8T)) }
      \cup { MapOf(k, e) : k \in MapKeyTypes, e \in MapElemTypes }
      \cup { PtrTo(Int8T), PtrTo(DecInt), PtrTo(SetStr), PtrTo(PtrTo(DecInt)),
             PtrTo(SliceOf(Int8T)), PtrTo(MapOf(StringT, Int8T)) }
      \cup { Ty("slice", 0, [NoCaps EXCEPT !.Setter = "ptr"], <<Int8T>>, <<>>, <<>>),
             Ty("map", 0, [NoCaps EXCEPT !.Text = "ptr"], <<Int8T>>, <<StringT>>, <<>>),
             Ty("struct", 0, [NoCaps EXCEPT !.Binary = "ptr"], <<>>, <<>>, <<>>) }

CoerceTypes == CapScalars \cup {StringT, IntT, ByteT, BoolT} \cup CompositeTypes

InitCoerce ==
    /\ pc = "processField"
    /\ arg \in { [str |-> s, type |-> t] : s \in CoerceValues, t \in CoerceTypes }
    /\ out = Ok(Zero)
    /\ NoCall

processFieldCall ==
    /\ pc = "processField"
    /\ out' = processField(arg.str, Value(arg.type, <<>>, arg.type.kind = "ptr"))
    /\ pc' = "returned"
    /\ UNCHANGED <<arg, spec, env, opts, vars, idx, store, err, lookups>>

NextCoerce == processFieldCall

SpecCoerce == InitCoerce /\ [][NextCoerce]_vars_all

(***************************************************************************)
(* Claims about the type coercer                                           *)
(***************************************************************************)
Methods == {"Decode", "Set", "UnmarshalText", "UnmarshalBinary"}

\* the type declares the method of capability c on its value or on its
\* pointer form
HasCap(t, c) ==
    IF t.kind = "ptr"
    THEN t.elem[1].kind # "ptr" /\ t.elem[1].caps[c] # "none"
    ELSE t.caps[c] # "none"

\* the strategy the precedence Decoder, Setter, text, binary gives a type
Strategy(t) ==
    CASE HasCap(t, "Decoder") -> "Decode"
      [] ~HasCap(t, "Decoder") /\ HasCap(t, "Setter") -> "Set"
      [] ~HasCap(t, "Decoder") /\ ~HasCap(t, "Setter") /\ HasCap(t, "Text")
            -> "UnmarshalText"
      [] ~HasCap(t, "Decoder") /\ ~HasCap(t, "Setter") /\ ~HasCap(t, "Text")
            /\ HasCap(t, "Binary") -> "UnmarshalBinary"
      [] OTHER -> "builtin"

\* the value v of type t, and every element, key and value in it, was
\* produced by the strategy of its type
RECURSIVE Conforms(_, _)
Conforms(v, t) ==
    IF Strategy(t) # "builtin" THEN v.k = Strategy(t)
    ELSE IF t.kind = "ptr"
    THEN /\ v.k = "ptr"
         /\ IF t.elem[1].kind = "ptr" THEN v.items[1] = Zero
            ELSE v.items[1].k \notin Methods /\
                 Conforms(v.items[1], [t.elem[1] EXCEPT !.caps = NoCaps])
    ELSE CASE t.kind \in {"string", "int", "uint", "bool"} -> v.k = t.kind
           [] t.kind = "slice" ->
                \/ v.k = "bytes" /\ t.elem[1].kind = "uint"
                \/ /\ v.k = "slice"
                   /\ \A i \in DOMAIN v.items : Conforms(v.items[i], t.elem[1])
           [] t.kind = "map" ->
                /\ v.k = "map"
                /\ \A i \in DOMAIN v.items :
                      /\ Conforms(v.items[i][1], t.key[1])
                      /\ Conforms(v.items[i][2], t.elem[1])
           [] OTHER -> v = Zero

CommaIdx(s) == { i \in 1..Len(s) : s[i] = "," }
KthComma(s, k) ==
    CHOOSE p \in CommaIdx(s) : Cardinality({ q \in CommaIdx(s) : q <= p }) = k
NumTokens(s) == Cardinality(CommaIdx(s)) + 1
Token(s, i) ==
    SubSeq(s, IF i = 1 THEN 1 ELSE KthComma(s, i - 1) + 1,
              IF i = NumTokens(s) THEN Len(s) ELSE KthComma(s, i) - 1)

\* the parts of a token, by the positions of its colons
ColonIdx(s) == { i \in 1..Len(s) : s[i] = ":" }
NumParts(tok) == Cardinality(ColonIdx(tok)) + 1
KeyPart(tok) == SubSeq(tok, 1, (CHOOSE p \in ColonIdx(tok) : TRUE) - 1)
ValPart(tok) == SubSeq(tok, (CHOOSE p \in ColonIdx(tok) : TRUE) + 1, Len(tok))

Blank(s) == \A i \in DOMAIN s : IsSpace(s[i])

\* the coercion of one string to a fresh value of type t
Coerce(s, t) == processField(s, Value(t, <<>>, t.kind = "ptr"))

\* the field is a map the built-in conversion fills
IsPlainMap(t) == t.kind = "map" /\ Strategy(t) = "builtin"

\* the tokens of s that do not split on ":" into exactly two parts
Malformed(s) == { i \in 1..NumTokens(s) : NumParts(Token(s, i)) # 2 }

\* token i of s is well-formed and its key or its value fails to coerce
PairFails(s, i, t) ==
    /\ NumParts(Token(s, i)) = 2
    /\ \/ Coerce(KeyPart(Token(s, i)), t.key[1]).err # NoErr
       \/ Coerce(ValPart(Token(s, i)), t.elem[1]).err # NoErr

\* the entries hold exactly the coerced key and value of every token, a
\* later token with the same key winning
HoldsPairs(entries, s, t) ==
    LET K(i) == Coerce(KeyPart(Token(s, i)), t.key[1]).val
        W(i) == Coerce(ValPart(Token(s, i)), t.elem[1]).val
        N == NumTokens(s)
    IN  /\ \A a, b \in DOMAIN entries : entries[a][1] = entries[b][1] => a = b
        /\ \A a \in DOMAIN entries : \E i \in 1..N : entries[a][1] = K(i)
        /\ \A i \in 1..N : \E a \in DOMAIN entries :
              /\ entries[a][1] = K(i)
              /\ \E j \in i..N :
                    /\ K(j) = K(i)
                    /\ entries[a][2] = W(j)
                    /\ \A l \in (j + 1)..N : K(l) # K(i)

\* C8 as stated: a blank string gives an empty non-nil map; a token that does
\* not split on ":" into exactly two parts makes the coercion fail with
\* "invalid map item"; on success the map holds exactly the coerced pairs.
C8_AsStated ==
    (pc = "returned" /\ IsPlainMap(arg.type)) =>
        /\ Blank(arg.str) => out = Ok(V("map", <<>>, 0, <<>>))
        /\ (~Blank(arg.str) /\ Malformed(arg.str) # {})
               => out.err.kind = "invalid map item"
        /\ (~Blank(arg.str) /\ out.err = NoErr)
               => out.val.k = "map" /\ HoldsPairs(out.val.items, arg.str, arg.type)

\* C8, amended: a blank string gives an empty non-nil map; a token that does
\* not split on ":" into exactly two parts makes the coercion fail, with
\* "invalid map item" naming the first such token unless the key or value of
\* an earlier pair fails to coerce; on success the map holds exactly the
\* coerced pairs, a later duplicate key overwriting an earlier one.
C8_MapCoercion ==
    (pc = "returned" /\ IsPlainMap(arg.type)) =>
        /\ Blank(arg.str) => out = Ok(V("map", <<>>, 0, <<>>))
        /\ (~Blank(arg.str) /\ Malformed(arg.str) # {}) =>
              LET first == CHOOSE i \in Malformed(arg.str) :
                               \A j \in Malformed(arg.str) : i <= j
              IN  /\ out.err # NoErr
                  /\ (\A j \in 1..(first - 1) : ~PairFails(arg.str, j, arg.type))
                        => out.err = [kind |-> "invalid map item",
                                      name |-> Token(arg.str, first)]
        /\ (~Blank(arg.str) /\ out.err = NoErr)
               => out.val.k = "map" /\ HoldsPairs(out.val.items, arg.str, arg.type)

\* "a:9:" has three parts and was refused as an invalid map item
C8_Witness ==
    /\ pc = "returned"
    /\ arg.type = MapOf(StringT, Int8T)
    /\ arg.str = <<"a",":","9",":">>
    /\ out.err = [kind |-> "invalid map item", name |-> arg.str]

\* the field is a slice the built-in conversion fills element by element
IsPlainSlice(t) ==
    /\ t.kind = "slice" /\ Strategy(t) = "builtin"
    /\ ~(t.elem[1].kind = "uint" /\ t.elem[1].bits = 8)

\* C9: for a non-byte slice a blank string gives an empty non-nil sequence;
\* any other string gives as many elements as it has commas plus one, the
\* i-th being the coercion of the i-th comma-separated token (the coercion
\* failing with the error of the first token that fails); a []byte field is
\* set to the bytes of the string, unsplit.
C9_SliceCoercion ==
    pc = "returned" =>
        /\ (IsPlainSlice(arg.type) /\ Blank(arg.str))
               => out = Ok(V("slice", <<>>, 0, <<>>))
        /\ (IsPlainSlice(arg.type) /\ ~Blank(arg.str)) =>
              LET N == Cardinality(CommaIdx(arg.str)) + 1
                  C(i) == Coerce(Token(arg.str, i), arg.type.elem[1])
                  bad == { i \in 1..N : C(i).err # NoErr }
              IN  IF bad = {}
                  THEN /\ out.err = NoErr
                       /\ out.val.k = "slice"
                       /\ Len(out.val.items) = N
                       /\ \A i \in 1..N : out.val.items[i] = C(i).val
                  ELSE out.err = C(CHOOSE i \in bad : \A j \in bad : i <= j).err
        /\ arg.type = SliceOf(ByteT) => out = Ok(V("bytes", arg.str, 0, <<>>))

\* "9,99" was coerced to the two elements 9 and 99 of a []int8
C9_Witness ==
    /\ pc = "returned"
    /\ arg.type = SliceOf(Int8T)
    /\ arg.str = <<"9",",","9","9">>
    /\ out = Ok(V("slice", <<>>, 0, << V("int", <<>>, 9, <<>>), V("int", <<>>, 99, <<>>) >>))

(***************************************************************************)
(* The API: Process and CheckDisallowed on a caller's struct               *)
(***************************************************************************)
\* the write of one field of the caller's struct
Write(st, path, v) ==
    [p \in DOMAIN st \cup {path} |-> IF p = path THEN v ELSE st[p]]

RECURSIVE WriteAll(_, _, _)
WriteAll(st, paths, v) ==
    IF paths = {} THEN st
    ELSE LET p == CHOOSE q \in paths : TRUE
         IN  WriteAll(Write(st, p, v), paths \ {p}, v)

\* a pointer gatherInfo allocated: it points to a zero struct
Allocated == V("ptr", <<>>, 0, <<>>)

\* Process, up to its loop: the options are applied and the fields gathered
ProcessCall(optsValues) ==
    /\ pc = "idle"
    /\ arg' = [fn |-> "Process", optsValues |-> optsValues]
    /\ opts' = apply(defaultOptions, optsValues)
    /\ \E g \in {gatherInfo(spec, opts')} :
           /\ store' = WriteAll(store, g.allocs, Allocated)
           /\ IF g.err # NoErr
              THEN /\ err' = g.err
                   /\ pc' = "returned"
                   /\ UNCHANGED <<vars, idx>>
              ELSE /\ vars' = g.vars
                   /\ idx' = 1
                   /\ pc' = "Process"
                   /\ UNCHANGED err
    /\ UNCHANGED <<out, spec, env, lookups>>

\* what the field holds after processField failed on it: a nil pointer that
\* no method of its own took was allocated before the conversion failed
afterFailure(field) ==
    IF field.type.kind = "ptr" /\ field.nil /\ selfDecoder(field) = "none"
    THEN <<V("ptr", <<>>, 0, <<Zero>>)>> ELSE <<>>

\* one iteration of the loop of Process
ProcessVar ==
    /\ pc = "Process"
    /\ idx <= Len(vars)
    /\ \E v \in {vars[idx]} : \E r \in {value(v, env)} :
           /\ lookups' = Append(lookups, r.lookups)
           /\ IF r.err # NoErr
              THEN /\ err' = r.err
                   /\ pc' = "returned"
                   /\ UNCHANGED <<idx, store>>
              ELSE IF ~r.isLoaded
              THEN IF isRequired(v)
                   THEN /\ err' = [kind |-> "required key missing value", name |-> v.key]
                        /\ pc' = "returned"
                        /\ UNCHANGED <<idx, store>>
                   ELSE /\ idx' = idx + 1
                        /\ UNCHANGED <<pc, err, store>>
              ELSE \E f \in {processField(r.value, v.field)} :
                   IF f.err # NoErr
                   THEN /\ err' = [kind |-> "ParseError", name |-> v.key]
                        /\ pc' = "returned"
                        /\ store' = IF afterFailure(v.field) = <<>> THEN store
                                    ELSE Write(store, v.field.path, afterFailure(v.field)[1])
                        /\ UNCHANGED idx
                   ELSE /\ store' = IF f.val = Zero THEN store
                                    ELSE Write(store, v.field.path, f.val)
                        /\ idx' = idx + 1
                        /\ UNCHANGED <<pc, err>>
    /\ UNCHANGED <<arg, out, spec, env, opts, vars>>

\* the return of Process after its loop
ProcessReturn ==
    /\ pc = "Process"
    /\ idx > Len(vars)
    /\ pc' = "returned"
    /\ UNCHANGED <<arg, out, spec, env, opts, vars, idx, store, err, lookups>>

\* os.Environ: one "NAME=value" string for each variable that is set
Environ(e) == { n \o <<"=">> \o e[n] : n \in DOMAIN e }

\* the prefix CheckDisallowed looks for
disallowedPrefixBare(o) == ToUpper(o.prefix)

disallowedPrefix(o) ==
    IF o.prefix # <<>> THEN ToUpper(o.prefix) \o <<"_">> ELSE o.prefix

\* the names CheckDisallowed knows
knownAltKeys(infos) == { infos[i].altKey : i \in DOMAIN infos }

knownKeysAndFiles(infos) ==
    { infos[i].key : i \in DOMAIN infos }
    \cup { ToUpper(infos[i].key \o infos[i].Opts.defaultFileSuffix) : i \in DOMAIN infos }

knownKeys(infos) == { infos[i].key : i \in DOMAIN infos }

\* the loop of CheckDisallowed: the names of the variables it objects to
unknownVars(e, prefix, infos) ==
    { SplitN2(x, "=")[1] : x \in
        { y \in Environ(e) :
            /\ HasPrefix(y, prefix)
            /\ SplitN2(y, "=")[1] \notin knownKeys(infos) } }

\* CheckDisallowed; the order of os.Environ is not specified, so any of the
\* unknown variables may be the one it reports
CheckDisallowedCall(optsValues) ==
    /\ pc = "idle"
    /\ arg' = [fn |-> "CheckDisallowed", optsValues |-> optsValues]
    /\ \E o \in {apply(defaultOptions, optsValues)} :
       \E g \in {gatherInfo(spec, o)} :
           /\ store' = WriteAll(store, g.allocs, Allocated)
           /\ IF g.err # NoErr
              THEN /\ err' = g.err
                   /\ opts' = o
                   /\ UNCHANGED vars
              ELSE /\ vars' = g.vars
                   /\ opts' = [o EXCEPT !.prefix = disallowedPrefix(o)]
                   /\ IF unknownVars(env, opts'.prefix, vars') = {} THEN err' = NoErr
                      ELSE \E n \in unknownVars(env, opts'.prefix, vars') :
                              err' = [kind |-> "unknown environment variable", name |-> n]
    /\ pc' = "returned"
    /\ UNCHANGED <<out, spec, env, idx, lookups>>

(***************************************************************************)
(* Spec: the caller's struct, the environment and the options are drawn    *)
(* from bounded sets; then Process or CheckDisallowed runs                 *)
(***************************************************************************)
MaxEnvVars == 2

FileSuffixes == { <<>>, DefaultFileSuffix, <<"_","F","O","O">> }

\* whether the name of an environment variable ends in a file suffix
IsFileName(n) ==
    \E x \in FileSuffixes \ {<<>>} :
        Len(n) > Len(x) /\ SubSeq(n, Len(n) - Len(x) + 1, Len(n)) = x

\* the values an environment variable holds: a number between spaces, and
\* for a variable named as a file variable also the path of the readable
\* file and a blank
EnvValues == { <<" ","9"," ">>, SecretPath, <<" ">> }

EnvValuesFor(n) == IF IsFileName(n) THEN EnvValues ELSE { <<" ","9"," ">> }

\* the environments that set at most MaxEnvVars of the names
Envs(names) ==
    UNION { { e \in [S -> EnvValues] : \A n \in S : e[n] \in EnvValuesFor(n) } :
              S \in { T \in SUBSET names : Cardinality(T) <= MaxEnvVars } }

\* a struct with the one field Secret tagged envconfig:"sec", under every
\* file tag, with and without a default
FileTags == { <<>>, <<<<"t","r","u","e">>>>, <<<<"f","a","l","s","e">>>>, <<<<"_","f","o","o">>>>, << <<>> >>, <<<<" ">>>> }

SingleTags ==
    { [NoTags EXCEPT !.envconfig = et, !.file = ft, !.default = dt] :
        et \in { <<<<"s","e","c">>>> }, ft \in FileTags, dt \in { <<>>, <<<<"d">>>> } }

SingleSpecs ==
    { [ptr |-> TRUE, type |-> StructOf(<<Field(<<"S","e","c","r","e","t">>, t, StringT)>>)] :
        t \in SingleTags }

AllOptionLists ==
    { a \o b \o c \o d :
        a \in { <<>>, <<WithPrefix(<<"a","p","p">>)>> },
        b \in { <<>>, <<WithoutDefaultLoadingFromFiles>> },
        c \in { <<>>, <<WithDefaultFileSuffix(<<"_","f","o","o">>)>> },
        d \in { <<>> } }

FewOptionLists ==
    { <<>>, <<WithPrefix(<<"a","p","p">>)>>, <<WithPrefix(<<"a","p","p">>), WithoutTrimSpaces>> }

\* a flat struct: an optional field, a required one, one with a default and a
\* nil pointer to a number
FlatSpec ==
    [ptr |-> TRUE, type |-> StructOf(<<
        Field(<<"H","o","s","t">>, NoTags, StringT),
        Field(<<"P","o","r","t">>, [NoTags EXCEPT !.required = <<<<"t","r","u","e">>>>], Int8T),
        Field(<<"N","a","m","e">>, [NoTags EXCEPT !.default = <<<<"d">>>>], StringT),
        Field(<<"M","o","d","e">>, NoTags, PtrTo(Int8T)) >>)]

FlatNames == { <<"H","O","S","T">>, <<"P","O","R","T">>, <<"N","A","M","E">>, <<"M","O","D","E">>, <<"P","O","R","T","_","F","I","L","E">>,
               <<"A","P","P","_","H","O","S","T">>, <<"A","P","P","_","P","O","R","T">> }

\* a struct type that unmarshals itself from text
Stamp ==
    Ty("struct", 0, [NoCaps EXCEPT !.Text = "ptr"], <<>>, <<>>,
       <<Field(<<"S","e","c">>, NoTags, Int8T)>>)

\* a struct with named, embedded, self-describing, pointed-to, unexported,
\* ignored, renamed and empty struct fields
NestedSpec ==
    [ptr |-> TRUE, type |-> StructOf(<<
        Field(<<"D","B">>, NoTags, StructOf(<<
            Field(<<"H","o","s","t">>, NoTags, StringT),
            Field(<<"M","a","x","C","o","n","n">>, [NoTags EXCEPT !.split_words = <<<<"t","r","u","e">>>>], Int8T) >>)),
        [Field(<<"C","o","m","m","o","n">>, NoTags, StructOf(<<Field(<<"D","e","b","u","g">>, NoTags, BoolT)>>))
            EXCEPT !.Anonymous = TRUE],
        Field(<<"W","h","e","n">>, NoTags, Stamp),
        Field(<<"C","a","c","h","e">>, NoTags, PtrTo(StructOf(<<Field(<<"S","i","z","e">>, NoTags, Int8T)>>))),
        [Field(<<"h","i","d","d","e","n">>, NoTags, Int8T) EXCEPT !.Exported = FALSE],
        Field(<<"S","k","i","p">>, [NoTags EXCEPT !.ignored = <<<<"t","r","u","e">>>>], StringT),
        Field(<<"S","u","b">>, [NoTags EXCEPT !.envconfig = <<<<"s">>>>], StructOf(<<
            Field(<<"I","n","n","e","r">>, NoTags, StructOf(<<Field(<<"K","e","y">>, NoTags, StringT)>>)) >>)),
        Field(<<"E","m","p","t","y">>, NoTags, StructOf(<<>>)) >>)]

NestedNames == { <<"A","P","P","_","D","B","_","H","O","S","T">>, <<"A","P","P","_","D","E","B","U","G">>, <<"A","P","P","_","C","A","C","H","E","_","S","I","Z","E">>, <<"A","P","P","_","S","_","I","N","N","E","R","_","K","E","Y">>,
                 <<"A","P","P","_","D","B">>, <<"A","P","P","_","X">>, <<"A","P","P","X">>, <<"D","B","_","H","O","S","T">>, <<"A","P","P","_","W","H","E","N","_","F","I","L","E">> }

\* what a caller may pass that is no pointer to a struct
InvalidSpecs == { [ptr |-> FALSE, type |-> StructOf(<<>>)], [ptr |-> TRUE, type |-> StringT] }

Specs == SingleSpecs \cup {FlatSpec, NestedSpec} \cup InvalidSpecs

OptionListsFor(s) == IF s \in SingleSpecs THEN AllOptionLists ELSE FewOptionLists

\* the names the environment may set for a struct: for the one-field structs
\* the keys of the field under every option list, alone and with each suffix
EnvNamesFor(s) ==
    IF s \in SingleSpecs
    THEN { ToUpper(k \o x) :
             k \in UNION { {v[1].key, v[1].altKey} \ {<<>>} :
                             v \in { gatherFields(s.type.fields, 1, o, <<>>) :
                                       o \in { apply(defaultOptions, ol) :
                                                 ol \in AllOptionLists } } },
             x \in FileSuffixes }
    ELSE IF s = FlatSpec THEN FlatNames
    ELSE IF s = NestedSpec THEN NestedNames
    ELSE {}

Init ==
    /\ pc = "idle"
    /\ arg = [fn |-> "none", optsValues |-> <<>>]
    /\ out = <<>>
    /\ spec \in Specs
    /\ env \in Envs(EnvNamesFor(spec))
    /\ opts = defaultOptions
    /\ vars = <<>>
    /\ idx = 0
    /\ store = <<>>
    /\ err = NoErr
    /\ lookups = <<>>

Next ==
    \/ \E ol \in OptionListsFor(spec) : ProcessCall(ol)
    \/ ProcessVar
    \/ ProcessReturn
    \/ \E ol \in OptionListsFor(spec) : CheckDisallowedCall(ol)

Spec == Init /\ [][Next]_vars_all

(***************************************************************************)
(* Claims about Process and CheckDisallowed                                *)
(***************************************************************************)
\* the options the running call was given, by constructor
Given(op) == { k \in DOMAIN arg.optsValues : arg.optsValues[k].op = op }

\* the key names of a variable: the primary key, then the alternate key
NamesOf(v) == IF v.altKey # <<>> THEN <<v.key, v.altKey>> ELSE <<v.key>>

\* the environment variables that can give a variable its value, in the
\* order of precedence: each key name, followed by its file-indirection
\* variable when file-indirection applies to the field
FileSuffixOf(v) ==
    IF TrimSpace(resolveFileLoading(v).tagValue) = <<>>
    THEN v.Opts.defaultFileSuffix ELSE TrimSpace(resolveFileLoading(v).tagValue)

Sources(v) ==
    IF resolveFileLoading(v).needLoad
    THEN [j \in 1..(2 * Len(NamesOf(v))) |->
            IF j % 2 = 1
            THEN [name |-> NamesOf(v)[(j + 1) \div 2], file |-> FALSE]
            ELSE [name |-> ToUpper(NamesOf(v)[j \div 2] \o FileSuffixOf(v)), file |-> TRUE]]
    ELSE [j \in 1..Len(NamesOf(v)) |-> [name |-> NamesOf(v)[j], file |-> FALSE]]

\* the position of the first of the sources src that is set, or 0
FirstHit(src) ==
    IF \A j \in DOMAIN src : src[j].name \notin DOMAIN env THEN 0
    ELSE CHOOSE j \in DOMAIN src :
            /\ src[j].name \in DOMAIN env
            /\ \A k \in 1..(j - 1) : src[k].name \notin DOMAIN env

\* what a source that is set yields: the variable's value or the contents
\* of the file it names
Yield(src) == IF src.file THEN SecretData ELSE env[src.name]

\* whether the file a file source names can be read: it is the one file
\* there is
Readable(src) == TrimSpace(env[src.name]) = SecretPath

Trimmed(v, s) == IF v.Opts.trimSpaces THEN TrimSpace(s) ELSE s

\* the variables Process has resolved so far
Resolved == IF arg.fn = "Process" THEN 1..Len(lookups) ELSE {}

\* C1: the sources of a variable are consulted in the order primary key,
\* its file variable, alternate key, its file variable, up to and including
\* the first that is set; a string field then holds what that source yields
\* (so the file of the primary key beats the alternate key set directly),
\* and only when no source is set does it hold the tag's default, or
\* nothing when there is none.
C1_ResolutionPrecedence ==
    \A i \in Resolved :
        \E v \in {vars[i]} : \E src \in {Sources(vars[i])} : \E h \in {FirstHit(src)} :
            /\ lookups[i] = [j \in 1..(IF h = 0 THEN Len(src) ELSE h) |-> src[j].name]
            /\ (v.field.type = StringT /\ h # 0 /\ (src[h].file => Readable(src[h])))
                 => /\ v.field.path \in DOMAIN store
                    /\ store[v.field.path] =
                         V("string", Trimmed(v, Yield(src[h])), 0, <<>>)
            /\ (v.field.type = StringT /\ h = 0) =>
                 IF TagHas(v.fieldType, TagDefault)
                 THEN /\ v.field.path \in DOMAIN store
                      /\ store[v.field.path] =
                           V("string", TagGet(v.fieldType, TagDefault), 0, <<>>)
                 ELSE v.field.path \notin DOMAIN store

\* the field tagged envconfig:"sec" default:"d" under the prefix APP holds
\* the contents of the file APP_SEC_FILE names although SEC is set directly
C1_Witness ==
    /\ arg.fn = "Process" /\ pc = "returned" /\ err = NoErr
    /\ Len(vars) = 1
    /\ vars[1].key = <<"A","P","P","_","S","E","C">> /\ vars[1].altKey = <<"S","E","C">>
    /\ TagHas(vars[1].fieldType, TagDefault)
    /\ DOMAIN env = { <<"A","P","P","_","S","E","C","_","F","I","L","E">>, <<"S","E","C">> }
    /\ env[<<"A","P","P","_","S","E","C","_","F","I","L","E">>] = SecretPath
    /\ lookups = << << <<"A","P","P","_","S","E","C">>, <<"A","P","P","_","S","E","C","_","F","I","L","E">> >> >>
    /\ store = (<<<<"S","e","c","r","e","t">>>> :> V("string", <<"s","3">>, 0, <<>>))

\* a variable has no value: no source of it is set and it has no default
NoValue(v) == ~TagHas(v.fieldType, TagDefault) /\ FirstHit(Sources(v)) = 0

\* C2: Process resolves the variables one at a time in walk order; when a
\* required variable has no value it returns the error naming its key, and
\* no later variable is resolved or written; a variable that is not
\* required and has no value is passed over, its field left as it was.
C2_RequiredStops ==
    /\ (arg.fn = "Process" /\ pc = "Process") => Len(lookups) = idx - 1
    /\ \A i \in Resolved :
          NoValue(vars[i]) =>
             IF TagGet(vars[i].fieldType, TagRequired) \in BoolTrue
             THEN /\ pc = "returned"
                  /\ err = [kind |-> "required key missing value", name |-> vars[i].key]
                  /\ Len(lookups) = i
                  /\ \A j \in i..Len(vars) : vars[j].field.path \notin DOMAIN store
             ELSE /\ vars[i].field.path \notin DOMAIN store
                  /\ \/ Len(lookups) > i
                     \/ pc = "Process" /\ idx = i + 1
                     \/ pc = "returned" /\ err = NoErr

\* Port is required and has no value: Host was written, Process returned
\* the error naming PORT, and Name did not get its default
C2_Witness ==
    /\ arg.fn = "Process" /\ pc = "returned"
    /\ spec = FlatSpec
    /\ err = [kind |-> "required key missing value", name |-> <<"P","O","R","T">>]
    /\ Len(lookups) = 2
    /\ <<<<"H","o","s","t">>>> \in DOMAIN store
    /\ <<<<"N","a","m","e">>>> \notin DOMAIN store

\* the Options defaults of the running call, from the options it was given
DefaultOn == Given("WithoutDefaultLoadingFromFiles") = {}

DefaultSuffix ==
    IF Given("WithDefaultFileSuffix") = {} THEN <<"_","F","I","L","E">>
    ELSE arg.optsValues[CHOOSE k \in Given("WithDefaultFileSuffix") : TRUE].a

\* whether the file tag turns file-indirection on for the field
FileEnabled(v) ==
    IF TagHas(v.fieldType, TagFile)
    THEN TagGet(v.fieldType, TagFile) \notin BoolFalse
    ELSE DefaultOn

\* whether the field has a file tag whose value is not a boolean
CustomSuffix(v) ==
    /\ TagHas(v.fieldType, TagFile)
    /\ TagGet(v.fieldType, TagFile) \notin BoolTrue \cup BoolFalse

\* the suffix with a non-boolean tag value taken as it stands
SuffixAsStated(v) ==
    IF CustomSuffix(v) THEN TagGet(v.fieldType, TagFile) ELSE DefaultSuffix

\* the suffix with a non-boolean tag value trimmed, the Options default
\* standing in for one that is blank
SuffixTrimmed(v) ==
    IF CustomSuffix(v) /\ TrimSpace(TagGet(v.fieldType, TagFile)) # <<>>
    THEN TrimSpace(TagGet(v.fieldType, TagFile)) ELSE DefaultSuffix

\* the key names of a variable and the file variable of each
NameSet(v) == { NamesOf(v)[k] : k \in DOMAIN NamesOf(v) }
FileVars(v, suffix) == { ToUpper(n \o suffix) : n \in NameSet(v) }

\* what resolving the i-th variable consulted, given the suffix of its file
\* variables: with file-indirection on, the file variable of the primary
\* key right after the primary key when that is unset, and besides the key
\* names only file variables; with it off, the key names alone.  When
\* none of these is set and there is no default the field stays unset.
FileRule(i, suffix) ==
    \E v \in {vars[i]} : \E L \in {lookups[i]} :
        /\ L[1] = v.key
        /\ IF FileEnabled(v)
           THEN /\ \A k \in DOMAIN L : L[k] \in NameSet(v) \cup FileVars(v, suffix)
                /\ v.key \notin DOMAIN env
                     => Len(L) >= 2 /\ L[2] = ToUpper(v.key \o suffix)
           ELSE /\ \A k \in DOMAIN L : L[k] \in NameSet(v)
                /\ Len(L) <= Len(NamesOf(v))
        /\ ( /\ DOMAIN env \cap NameSet(v) = {}
             /\ FileEnabled(v) => DOMAIN env \cap FileVars(v, suffix) = {}
             /\ ~TagHas(v.fieldType, TagDefault) )
              => v.field.path \notin DOMAIN store

\* C3 as stated: a non-boolean file tag value is itself the suffix.
C3_AsStated == \A i \in Resolved : FileRule(i, SuffixAsStated(vars[i]))

\* C3: a boolean file tag turns file-indirection on or off whatever the
\* Options say; a non-boolean one turns it on and, trimmed of surrounding
\* white space, is the suffix, unless it is then empty, when the Options
\* default suffix is used; without a file tag the Options decide both.  The
\* file variable consulted is upper(key name + suffix), and one built with
\* another suffix is ignored.
C3_FileTag == \A i \in Resolved : FileRule(i, SuffixTrimmed(vars[i]))

\* the field tagged file:" " was read from the file SEC_FOO names: the call
\* was given the default suffix _foo and told not to load from files
C3_Witness ==
    /\ arg.fn = "Process" /\ pc = "returned" /\ err = NoErr
    /\ Len(vars) = 1
    /\ TagGet(vars[1].fieldType, TagFile) = <<" ">>
    /\ ~DefaultOn /\ DefaultSuffix = <<"_","f","o","o">>
    /\ lookups = << << <<"S","E","C">>, <<"S","E","C","_","F","O","O">> >> >>
    /\ env = (<<"S","E","C","_","F","O","O">> :> SecretPath)
    /\ store = (<<<<"S","e","c","r","e","t">>>> :> V("string", <<"s","3">>, 0, <<>>))

\* C4: a file variable that is not set is no error: resolution goes on to
\* the next source, or to the default.  One that is set to a blank path,
\* or to the path of a file that cannot be read, makes Process return the
\* error at once: no further source of the variable is consulted, its
\* default is not used, its field is not written, and no later variable is
\* resolved.
C4_FileErrors ==
    \A i \in Resolved :
        \E v \in {vars[i]} : \E L \in {lookups[i]} :
        \E src \in {Sources(vars[i])} : \E h \in {FirstHit(src)} :
            /\ \A k \in 1..(Len(L) - 1) : L[k] \notin DOMAIN env
            /\ IF h # 0 /\ src[h].file /\ ~Readable(src[h])
               THEN /\ pc = "returned"
                    /\ err.kind = IF TrimSpace(env[src[h].name]) = <<>>
                                  THEN "empty file variable" ELSE "read file"
                    /\ L[Len(L)] = src[h].name
                    /\ Len(lookups) = i
                    /\ v.field.path \notin DOMAIN store
               ELSE /\ err.kind \in {"empty file variable", "read file"}
                       => Len(lookups) > i
                    /\ h = 0 => Len(L) = Len(src)

\* APP_SEC_FILE is blank: Process returned the error without looking at
\* SEC, which is set, and without using the default
C4_Witness ==
    /\ arg.fn = "Process" /\ pc = "returned"
    /\ err.kind = "empty file variable"
    /\ Len(vars) = 1
    /\ vars[1].altKey = <<"S","E","C">>
    /\ TagHas(vars[1].fieldType, TagDefault)
    /\ env = (<<"A","P","P","_","S","E","C","_","F","I","L","E">> :> <<" ">>) @@ (<<"S","E","C">> :> <<" ","9"," ">>)
    /\ lookups = << << <<"A","P","P","_","S","E","C">>, <<"A","P","P","_","S","E","C","_","F","I","L","E">> >> >>
    /\ store = <<>>

\* the prefix the running call was given, as WithPrefix hands it on
CallPrefix ==
    IF Given("WithPrefix") = {} THEN <<>>
    ELSE arg.optsValues[CHOOSE k \in Given("WithPrefix") : TRUE].a

\* the running call walked the fields of a struct it was given a pointer to
Walked == arg.fn # "none" /\ spec.ptr /\ spec.type.kind = "struct"

\* the type a field's pointers lead to
RECURSIVE Pointee(_)
Pointee(t) == IF t.kind = "ptr" THEN Pointee(t.elem[1]) ELSE t

\* a type with the Decoder, Setter, text or binary unmarshalling capability
SelfDescribing(t) == \E c \in DOMAIN t.caps : t.caps[c] # "none"

\* a struct field the walk descends into
Descends(f) == Pointee(f.Type).kind = "struct" /\ ~SelfDescribing(Pointee(f.Type))

\* the paths of the fields the flattened walk of the fields k.. of struct t
\* lists, depth first in the order of declaration
RECURSIVE LeavesFrom(_, _, _)
LeavesFrom(t, k, path) ==
    IF k > Len(t.fields) THEN <<>>
    ELSE LET f == t.fields[k]
         IN  (IF ~f.Exported \/ TagGet(f, TagIgnored) \in BoolTrue THEN <<>>
              ELSE IF Descends(f) THEN LeavesFrom(Pointee(f.Type), 1, path \o <<f.Name>>)
              ELSE << path \o <<f.Name>> >>)
             \o LeavesFrom(t, k + 1, path)

\* the key of the field at path p of struct t walked with a prefix: a named
\* struct on the way hands its own key down as the prefix, an embedded one
\* the prefix it was walked with
RECURSIVE KeyAlong(_, _, _)
KeyAlong(t, p, prefix) ==
    LET f == t.fields[CHOOSE k \in DOMAIN t.fields : t.fields[k].Name = Head(p)]
    IN  IF Len(p) = 1 THEN resolveKey(prefix, f)[1]
        ELSE KeyAlong(Pointee(f.Type), Tail(p),
                      IF f.Anonymous THEN prefix ELSE resolveKey(prefix, f)[1])

\* C5: the variables are the fields of the flattened walk, depth first in
\* the order of declaration: a named struct field has no entry of its own
\* and its fields are walked with its key as their prefix, an embedded one
\* with the prefix unchanged; a struct field whose type is self-describing
\* keeps its one entry and none of its fields has one.
C5_Flatten ==
    Walked =>
        /\ [i \in DOMAIN vars |-> vars[i].field.path] = LeavesFrom(spec.type, 1, <<>>)
        /\ \A i \in DOMAIN vars :
              /\ vars[i].key = KeyAlong(spec.type, vars[i].field.path, ToUpper(CallPrefix))
              /\ vars[i].field.type.kind = "struct" => SelfDescribing(vars[i].field.type)

\* under the prefix app the nested struct gave these six variables
C5_Witness ==
    /\ Walked /\ spec = NestedSpec
    /\ [i \in DOMAIN vars |-> vars[i].key] =
         << <<"A","P","P","_","D","B","_","H","O","S","T">>, <<"A","P","P","_","D","B","_","M","A","X","_","C","O","N","N">>, <<"A","P","P","_","D","E","B","U","G">>, <<"A","P","P","_","W","H","E","N">>,
            <<"A","P","P","_","C","A","C","H","E","_","S","I","Z","E">>, <<"A","P","P","_","S","_","I","N","N","E","R","_","K","E","Y">> >>
    /\ vars[3].field.path = << <<"C","o","m","m","o","n">>, <<"D","e","b","u","g">> >>
    /\ vars[4].field.type = Stamp

\* the variables CheckDisallowed objects to: those whose name begins with
\* upper(P)_ and is not the key of a variable of the struct
Offending ==
    { n \in DOMAIN env :
        /\ HasPrefix(n, ToUpper(CallPrefix) \o <<"_">>)
        /\ \A i \in DOMAIN vars : n # vars[i].key }

\* C6: CheckDisallowed with a prefix P returns the unknown environment
\* variable error, naming one such variable, exactly when the environment
\* holds a variable whose name begins with upper(P)_ and is not a key of the
\* struct; variables without that prefix never matter.
C6_Disallowed ==
    (Walked /\ arg.fn = "CheckDisallowed" /\ CallPrefix # <<>>) =>
        IF Offending = {} THEN err = NoErr
        ELSE err.kind = "unknown environment variable" /\ err.name \in Offending

\* APP_X is no key of the nested struct and APP_DB_HOST is one
C6_Witness ==
    /\ Walked /\ arg.fn = "CheckDisallowed" /\ spec = NestedSpec
    /\ DOMAIN env = { <<"A","P","P","_","X">>, <<"A","P","P","_","D","B","_","H","O","S","T">> }
    /\ err = [kind |-> "unknown environment variable", name |-> <<"A","P","P","_","X">>]

\* a variable whose field has an explicit name tag
Named(v) == TrimSpace(TagGet(v.fieldType, TagEnvconfig)) # <<>>

\* the names resolving the i-th variable looked up
LookedUp(i) == { lookups[i][k] : k \in DOMAIN lookups[i] }

\* C11 as stated: with an explicit name tag the alternate key is the primary
\* key, and resolution looks up nothing but the primary key and its file
\* variable.
C11_AsStated ==
    Walked =>
        \A i \in DOMAIN vars : Named(vars[i]) =>
            /\ vars[i].altKey = vars[i].key
            /\ i \in Resolved =>
                 LookedUp(i) \subseteq
                    { vars[i].key, ToUpper(vars[i].key \o FileSuffixOf(vars[i])) }

\* C11: with an explicit name tag the alternate key is the upper-cased tag
\* name without the prefix; it is the primary key only when the prefix is
\* empty, and otherwise the primary key is <prefix>_<alternate key>.  When
\* neither the primary key nor its file variable is set, resolution looks
\* up the alternate key.
C11_AltKey ==
    Walked =>
        \A i \in DOMAIN vars : Named(vars[i]) =>
            /\ vars[i].altKey = ToUpper(TrimSpace(TagGet(vars[i].fieldType, TagEnvconfig)))
            /\ vars[i].key = IF vars[i].Opts.prefix = <<>> THEN vars[i].altKey
                             ELSE ToUpper(vars[i].Opts.prefix) \o <<"_">> \o vars[i].altKey
            /\ ( /\ i \in Resolved
                 /\ vars[i].key \notin DOMAIN env
                 /\ ToUpper(vars[i].key \o FileSuffixOf(vars[i])) \notin DOMAIN env )
                  => vars[i].altKey \in LookedUp(i)

\* under the prefix app the field tagged envconfig:"sec" took the value of
\* SEC, APP_SEC being unset
C11_Witness ==
    /\ arg.fn = "Process" /\ pc = "returned" /\ err = NoErr
    /\ Len(vars) = 1
    /\ vars[1].key = <<"A","P","P","_","S","E","C">> /\ vars[1].altKey = <<"S","E","C">>
    /\ env = (<<"S","E","C">> :> <<" ","9"," ">>)
    /\ lookups[1][Len(lookups[1])] = <<"S","E","C">>
    /\ store = (<<<<"S","e","c","r","e","t">>>> :> V("string", <<"9">>, 0, <<>>))

\* whether the running call trims: it does unless WithoutTrimSpaces is given
TrimOn == Given("WithoutTrimSpaces") = {}

\* C12: the options of a nested walk are those of the call but for the
\* prefix, so with trimming on a string field at any depth holds the value
\* found in the environment or in a file trimmed of surrounding white space.
C12_NestedTrim ==
    \A i \in Resolved :
        \E v \in {vars[i]} : \E src \in {Sources(vars[i])} : \E h \in {FirstHit(src)} :
            /\ v.Opts.isLoadFromFile = DefaultOn
            /\ v.Opts.trimSpaces = TrimOn
            /\ (TrimOn /\ v.field.type = StringT /\ h # 0
                  /\ (src[h].file => Readable(src[h])))
                 => /\ v.field.path \in DOMAIN store
                    /\ store[v.field.path] =
                         V("string", TrimSpace(Yield(src[h])), 0, <<>>)

\* with trimming on, DB.Host was given the value of APP_DB_HOST with the
\* spaces around it
C12_Witness ==
    /\ arg.fn = "Process" /\ spec = NestedSpec /\ TrimOn
    /\ <<"A","P","P","_","D","B","_","H","O","S","T">> \in DOMAIN env
    /\ env[<<"A","P","P","_","D","B","_","H","O","S","T">>] = <<" ","9"," ">>
    /\ << <<"D","B">>, <<"H","o","s","t">> >> \in DOMAIN store
    /\ store[<< <<"D","B">>, <<"H","o","s","t">> >>] = V("string", <<" ","9"," ">>, 0, <<>>)

(***************************************************************************)
(* SpecWalk: gatherInfo one field at a time, on struct types that may      *)
(* refer to themselves.  out is the stack of the calls of gatherInfo that  *)
(* are running, the innermost last; a call is [type, i, o, path]: the      *)
(* struct it walks, the index of its loop, its options and where the       *)
(* struct is stored.                                                       *)
(***************************************************************************)
\* the depth of recursion the goroutine stack holds
MaxDepth == 4

\* the type of a field that refers to the struct type it is declared in
SelfT == Ty("self", 0, NoCaps, <<>>, <<>>, <<>>)

\* the type t stands for within the declaration of the struct type s
RECURSIVE Unfold(_, _)
Unfold(t, s) ==
    IF t.kind = "self" THEN s
    ELSE IF t.kind = "ptr" THEN PtrTo(Unfold(t.elem[1], s))
    ELSE t

\* the i-th field of the struct a call walks
fieldTypeAt(call, i, s) ==
    [call.type.fields[i] EXCEPT !.Type = Unfold(call.type.fields[i].Type, s)]

\* the struct types walked: one or two fields, each an int8, a *int8, a
\* struct, a pointer to a struct, or a pointer to the type itself (plain,
\* ignored or embedded); the type with or without a Decode method
Leaf == StructOf(<<Field(<<"X">>, NoTags, Int8T)>>)

WalkFields(name) ==
    { Field(name, NoTags, t) : t \in { Int8T, PtrTo(Int8T), Leaf, PtrTo(Leaf), PtrTo(SelfT) } }
    \cup { Field(name, [NoTags EXCEPT !.ignored = <<<<"t","r","u","e">>>>], PtrTo(SelfT)),
           [Field(name, NoTags, PtrTo(SelfT)) EXCEPT !.Anonymous = TRUE] }

WalkTypes ==
    { Ty("struct", 0, caps, <<>>, <<>>, fields) :
        caps \in { NoCaps, [NoCaps EXCEPT !.Decoder = "ptr"] },
        fields \in { <<a>> : a \in WalkFields(<<"A">>) }
                   \cup { <<a, b>> : a \in WalkFields(<<"A">>), b \in WalkFields(<<"B">>) } }

InitWalk ==
    /\ pc = "idle"
    /\ arg = [fn |-> "gatherInfo", optsValues |-> <<>>]
    /\ out = <<>>
    /\ spec \in { [ptr |-> TRUE, type |-> t] : t \in WalkTypes }
    /\ env = <<>>
    /\ opts \in { defaultOptions, apply(defaultOptions, <<WithPrefix(<<"a">>)>>) }
    /\ vars = <<>>
    /\ idx = 0
    /\ store = <<>>
    /\ err = NoErr
    /\ lookups = <<>>

\* the entry of the outermost gatherInfo
gatherInfoEnter ==
    /\ pc = "idle"
    /\ IF ~spec.ptr \/ spec.type.kind # "struct"
       THEN /\ err' = ErrInvalidSpecification
            /\ pc' = "returned"
            /\ UNCHANGED out
       ELSE /\ out' = << [type |-> spec.type, i |-> 1, o |-> opts, path |-> <<>>] >>
            /\ pc' = "gatherInfo"
            /\ UNCHANGED err
    /\ UNCHANGED <<arg, spec, env, opts, vars, idx, store, lookups>>

\* one iteration of the loop of the innermost gatherInfo; the recursive call
\* overflows the stack when MaxDepth calls are running
gatherInfoField ==
    /\ pc = "gatherInfo"
    /\ \E call \in {out[Len(out)]} :
         /\ call.i <= Len(call.type.fields)
         /\ \E fieldType \in {fieldTypeAt(call, call.i, spec.type)} :
            \E field \in {fieldOf(fieldType, call.path)} :
              IF isSkipped(fieldType)
              THEN /\ out' = [out EXCEPT ![Len(out)].i = call.i + 1]
                   /\ UNCHANGED <<pc, vars, store>>
              ELSE /\ store' = IF allocates(fieldType.Type, fieldType.Nil)
                               THEN Write(store, field.path, Allocated) ELSE store
                   /\ IF isNested(field)
                      THEN IF Len(out) = MaxDepth
                           THEN /\ pc' = "fatal"
                                /\ UNCHANGED <<out, vars>>
                           ELSE /\ out' = Append([out EXCEPT ![Len(out)].i = call.i + 1],
                                                 [type |-> field.type, i |-> 1,
                                                  o |-> innerOpts(fieldType, call.o),
                                                  path |-> field.path])
                                /\ UNCHANGED <<pc, vars>>
                      ELSE /\ vars' = Append(vars, varItem(fieldType, field, call.o))
                           /\ out' = [out EXCEPT ![Len(out)].i = call.i + 1]
                           /\ UNCHANGED pc
    /\ UNCHANGED <<arg, spec, env, opts, idx, err, lookups>>

\* the return of the innermost gatherInfo
gatherInfoReturn ==
    /\ pc = "gatherInfo"
    /\ out[Len(out)].i > Len(out[Len(out)].type.fields)
    /\ out' = SubSeq(out, 1, Len(out) - 1)
    /\ pc' = IF Len(out) = 1 THEN "returned" ELSE "gatherInfo"
    /\ UNCHANGED <<arg, spec, env, opts, vars, idx, store, err, lookups>>

NextWalk ==
    \/ gatherInfoEnter
    \/ gatherInfoField
    \/ gatherInfoReturn

\* a call that has started runs on
SpecWalk == InitWalk /\ [][NextWalk]_vars_all /\ WF_vars_all(NextWalk)

\* a struct type with a field the walk follows back to the type itself
RECURSIVE Pointed(_)
Pointed(t) == IF t.kind = "ptr" THEN Pointed(t.elem[1]) ELSE t

FollowsSelf(s) ==
    /\ s.caps = NoCaps
    /\ \E k \in DOMAIN s.fields :
          /\ s.fields[k].Exported
          /\ TagGet(s.fields[k], TagIgnored) \notin BoolTrue
          /\ Pointed(s.fields[k].Type) = SelfT

\* C13: the field walk returns for every struct type, also for one that
\* refers to itself through a pointer.
C13_WalkTerminates == <>(pc = "returned")

\* C13, as far as it holds: the field walk returns for a struct type none
\* of whose fields leads back to it.
C13_ReturnsUnlessSelf == ~FollowsSelf(spec.type) => <>(pc = "returned")

\* the walk of a struct whose field A is a pointer to the struct's own type
\* allocated A, A.A and A.A.A and overflowed the stack
C13_Witness ==
    /\ pc = "fatal"
    /\ spec.type.fields = <<Field(<<"A">>, NoTags, PtrTo(SelfT))>>
    /\ Len(out) = MaxDepth
    /\ << <<"A">>, <<"A">>, <<"A">> >> \in DOMAIN store
    /\ vars = <<>>

\* the file variable Process reads for the primary key of a variable
FileVarOf(v) == ToUpper(v.key \o FileSuffixOf(v))

\* C14: CheckDisallowed knows the primary keys only.  Under a prefix, the
\* file variable of a key that file-indirection applies to is unknown to
\* it: when one is set CheckDisallowed returns the unknown environment
\* variable error, naming it when nothing else is unknown, although value
\* resolution would read the field from the file it names.
C14_FileVarsDisallowed ==
    (Walked /\ arg.fn = "CheckDisallowed" /\ CallPrefix # <<>>) =>
        \A i \in DOMAIN vars :
            \E v \in {vars[i]} : \E F \in {FileVarOf(vars[i])} :
                ( /\ resolveFileLoading(v).needLoad
                  /\ F \in DOMAIN env
                  /\ \A j \in DOMAIN vars : vars[j].key # F )
                 => /\ F \in Offending
                    /\ err.kind = "unknown environment variable"
                    /\ Offending = {F} => err.name = F
                    /\ (v.key \notin DOMAIN env /\ TrimSpace(env[F]) = SecretPath)
                         => /\ value(v, env).isLoaded
                            /\ value(v, env).err = NoErr
                            /\ value(v, env).lookups = <<v.key, F>>

\* APP_SEC_FILE names the readable file and is all that is set: Process
\* would read the field from it, CheckDisallowed returned the error naming
\* it
C14_Witness ==
    /\ Walked /\ arg.fn = "CheckDisallowed" /\ CallPrefix = <<"A","P","P">>
    /\ Len(vars) = 1 /\ vars[1].key = <<"A","P","P","_","S","E","C">>
    /\ env = (<<"A","P","P","_","S","E","C","_","F","I","L","E">> :> SecretPath)
    /\ value(vars[1], env).isLoaded
    /\ err = [kind |-> "unknown environment variable", name |-> <<"A","P","P","_","S","E","C","_","F","I","L","E">>]

=============================================================================
